---- MODULE Spec2Model ----
(***************************************************************************)
(* Model of backend/server.py: a FastAPI service over two MongoDB          *)
(* collections, projects and status_checks.  Every route handler is an     *)
(* action; the seed handler (create_sample_projects) is a sequence of      *)
(* steps, one per awaited store call, so that other requests interleave    *)
(* with it as they do on the event loop.                                   *)
(***************************************************************************)
EXTENDS Integers, Sequences, FiniteSets, TLC

(***************************************************************************)
(* Bounds of the model.                                                    *)
(***************************************************************************)
\* Create requests (project or status check) that pass validation in one behaviour.
MaxCreates == 1
\* Seed requests received in one behaviour.
MaxSeeds == 2
\* Largest reading of the clock: in microseconds where it moves by one, in
\* milliseconds where it moves by a thousand.
MaxClock == 1
\* Store calls that raise in one behaviour.
MaxFailures == 1
\* Records beyond the list cap in the collections the list check starts from.
MaxOver == 2

(***************************************************************************)
(* Program constants.                                                      *)
(***************************************************************************)
\* to_list(1000) in get_projects and get_status_checks.
ListCap == 1000
\* BSON datetimes are whole milliseconds; datetime.utcnow() is microseconds.
MicrosPerMilli == 1000

VARIABLES
    projects,          \* db.projects, in insertion (natural) order
    status_checks,     \* db.status_checks, in insertion order
    uuids,             \* how many uuid4 values have been drawn
    now,               \* the clock datetime.utcnow() reads, in microseconds
    seed_pc,           \* create_sample_projects: "idle", or "inserting" once delete_many returned
    created_projects,  \* create_sample_projects' local list
    req,               \* the request last served
    resp,              \* the response last sent
    creates,           \* history: create requests that passed validation
    preSeed,           \* history: ids in db.projects when the latest seed started
    seedAlone,         \* history: no other write since the running seed started
    seeds,             \* history: seed requests received
    seedCalls,         \* history: store calls the latest seed has completed
    failures,          \* history: store calls that raised
    readAt             \* history: inserts a running seed had done when resp was read, else -1

vars == <<projects, status_checks, uuids, now, seed_pc, created_projects,
          req, resp, creates, preSeed, seedAlone, seeds, seedCalls, failures,
          readAt>>

Min(a, b) == IF a < b THEN a ELSE b

(***************************************************************************)
(* JSON values of a request body.  t is the JSON kind; s holds a string,   *)
(* number or boolean literal; l holds the items of a list of strings.      *)
(* "absent" is a key the body does not have.                               *)
(***************************************************************************)
JAbsent == [t |-> "absent", s |-> "", l |-> <<>>]
JNull == [t |-> "null", s |-> "", l |-> <<>>]
JStr(x) == [t |-> "str", s |-> x, l |-> <<>>]
JNum(x) == [t |-> "num", s |-> x, l |-> <<>>]
JBool(b) == [t |-> "bool", s |-> IF b THEN "true" ELSE "false", l |-> <<>>]
JList(xs) == [t |-> "list", s |-> "", l |-> xs]

\* Optional[str]: <<>> is None, <<x>> is the string x.
None == <<>>
Some(x) == <<x>>

(***************************************************************************)
(* Field validators of the pydantic models.                                *)
(***************************************************************************)
\* A plausible bug: the field is declared Optional[str] = None.
valid_str_optional(v) == v.t \in {"absent", "null", "str"}

\* A plausible bug: the field is declared with min_length=1.
valid_str_nonempty(v) == v.t = "str" /\ v.s # ""

\* A field declared `name: str`: required, and a JSON string.
valid_str(v) == v.t = "str"

\* A field declared `name: List[str]`: required, and a JSON list.
valid_list(v) == v.t = "list"

\* A field declared `name: Optional[str] = None`: absent, null or a string.
valid_optional_str(v) == v.t \in {"absent", "null", "str"}

\* A field declared `name: bool = False`: absent or a JSON boolean.
valid_bool(v) == v.t \in {"absent", "bool"}

optional_str(v) == IF v.t = "str" THEN Some(v.s) ELSE None

bool_or_default(v) == IF v.t = "bool" THEN v.s = "true" ELSE FALSE

\* ProjectCreate: whether the body validates.
ProjectCreate_valid(p) ==
    /\ valid_str(p.title)
    /\ valid_str(p.description)
    /\ valid_list(p.tech_stack)
    /\ valid_str(p.image_url)
    /\ valid_optional_str(p.demo_url)
    /\ valid_optional_str(p.github_url)
    /\ valid_str(p.category)
    /\ valid_bool(p.featured)

\* A plausible bug: the dict carries the body's own id along.
ProjectCreate_dict_with_id(p) ==
    [id |-> optional_str(p.id),
     title |-> p.title.s,
     description |-> p.description.s,
     tech_stack |-> p.tech_stack.l,
     image_url |-> p.image_url.s,
     demo_url |-> optional_str(p.demo_url),
     github_url |-> optional_str(p.github_url),
     category |-> p.category.s,
     featured |-> bool_or_default(p.featured)]

\* ProjectCreate(...).dict(): the declared fields only.  ProjectCreate declares
\* no id, so a body's "id" key is dropped: id |-> None stands for "no id key".
ProjectCreate_dict(p) ==
    [id |-> None,
     title |-> p.title.s,
     description |-> p.description.s,
     tech_stack |-> p.tech_stack.l,
     image_url |-> p.image_url.s,
     demo_url |-> optional_str(p.demo_url),
     github_url |-> optional_str(p.github_url),
     category |-> p.category.s,
     featured |-> bool_or_default(p.featured)]

\* str(uuid.uuid4()): the n-th value drawn, distinct from every other.
uuid4(n) == "uuid-" \o ToString(n)

\* Project(**d) for a dict without created_date: id and created_date come from
\* their default factories unless the dict supplies them.
Project(d, n, t) ==
    [id |-> IF d.id = None THEN uuid4(n) ELSE d.id[1],
     title |-> d.title,
     description |-> d.description,
     tech_stack |-> d.tech_stack,
     image_url |-> d.image_url,
     demo_url |-> d.demo_url,
     github_url |-> d.github_url,
     category |-> d.category,
     created_date |-> t,
     featured |-> d.featured]

\* Project(**doc) for a stored document: every field is supplied.
Project_of_doc(doc) ==
    [id |-> doc.id,
     title |-> doc.title,
     description |-> doc.description,
     tech_stack |-> doc.tech_stack,
     image_url |-> doc.image_url,
     demo_url |-> doc.demo_url,
     github_url |-> doc.github_url,
     category |-> doc.category,
     created_date |-> doc.created_date,
     featured |-> doc.featured]

\* StatusCheckCreate: whether the body validates.
StatusCheckCreate_valid(p) == valid_str(p.client_name)

\* StatusCheck(**input.dict())
StatusCheck(p, n, t) ==
    [id |-> uuid4(n), client_name |-> p.client_name.s, timestamp |-> t]

\* StatusCheck(**doc) for a stored document.
StatusCheck_of_doc(doc) ==
    [id |-> doc.id, client_name |-> doc.client_name, timestamp |-> doc.timestamp]

(***************************************************************************)
(* The document store.                                                     *)
(***************************************************************************)
\* A datetime as BSON stores it: truncated to whole milliseconds.
bson_datetime(t) == (t \div MicrosPerMilli) * MicrosPerMilli

\* A plausible bug: insert_one replaces the collection's last document.
insert_one_project_over(coll, obj) ==
    IF coll = <<>> THEN <<[obj EXCEPT !.created_date = bson_datetime(@)]>>
    ELSE [coll EXCEPT ![Len(coll)] = [obj EXCEPT !.created_date = bson_datetime(@)]]

\* db.projects.insert_one(project_obj.dict())
insert_one_project(coll, obj) ==
    Append(coll, [obj EXCEPT !.created_date = bson_datetime(@)])

\* db.status_checks.insert_one(status_obj.dict())
insert_one_status(coll, obj) ==
    Append(coll, [obj EXCEPT !.timestamp = bson_datetime(@)])

\* Positions of the documents matching {"id": id}.
matching(coll, id) == {i \in 1..Len(coll) : coll[i].id = id}

first_match(coll, id) == CHOOSE i \in matching(coll, id) : \A j \in matching(coll, id) : i <= j

\* db.projects.find_one({"id": id}): <<>> for None, else the first match.
find_one(coll, id) ==
    IF matching(coll, id) = {} THEN <<>> ELSE <<coll[first_match(coll, id)]>>

\* A plausible bug: delete_one reports a match and removes nothing.
delete_one_keep(coll, id) == coll

\* A plausible bug: an absent id removes the oldest document.
delete_one_any(coll, id) ==
    IF matching(coll, id) = {} THEN (IF coll = <<>> THEN coll ELSE Tail(coll))
    ELSE [i \in 1..(Len(coll) - 1) |->
             IF i < first_match(coll, id) THEN coll[i] ELSE coll[i + 1]]

\* A plausible bug: delete_one also drops the documents stored after the match.
delete_one_and_after(coll, id) ==
    IF matching(coll, id) = {} THEN coll
    ELSE SubSeq(coll, 1, first_match(coll, id) - 1)

\* db.projects.delete_one({"id": id}): the collection without the first match.
delete_one(coll, id) ==
    IF matching(coll, id) = {} THEN coll
    ELSE [i \in 1..(Len(coll) - 1) |->
             IF i < first_match(coll, id) THEN coll[i] ELSE coll[i + 1]]

\* result.deleted_count of delete_one
deleted_count(coll, id) == IF matching(coll, id) = {} THEN 0 ELSE 1

\* A plausible bug: the seed removes one document instead of all.
delete_many_one(coll) == IF coll = <<>> THEN coll ELSE Tail(coll)

\* db.projects.delete_many({})
delete_many(coll) == <<>>

\* A plausible bug: the cursor is read without the cap.
to_list_all(coll, length) == coll

\* find().to_list(length): the first `length` documents.
to_list(coll, length) == SubSeq(coll, 1, Min(Len(coll), length))

(***************************************************************************)
(* create_sample_projects' fixed data.                                     *)
(***************************************************************************)
sample_projects ==
    << [id |-> None,
        title |-> "AI-Powered Chat Application",
        description |-> "A modern chat application with AI integration, real-time messaging, and beautiful UI. Features include smart responses, conversation history, and responsive design.",
        tech_stack |-> <<"React", "Node.js", "OpenAI", "Socket.io", "MongoDB">>,
        image_url |-> "https://images.unsplash.com/photo-1587620962725-abab7fe55159?ixlib=rb-4.0.3&ixid=M3wxMjA3fDB8MHxwaG90by1wYWdlfHx8fGVufDB8fHx8fA%3D%3D&auto=format&fit=crop&w=1000&q=80",
        demo_url |-> Some("https://demo-chat.example.com"),
        github_url |-> Some("https://github.com/user/ai-chat"),
        category |-> "Web Application",
        featured |-> TRUE],
       [id |-> None,
        title |-> "3D Portfolio Website",
        description |-> "An interactive 3D portfolio showcasing projects with geometric shapes and smooth animations. Built with Three.js and React for an immersive user experience.",
        tech_stack |-> <<"React", "Three.js", "React Three Fiber", "FastAPI", "MongoDB">>,
        image_url |-> "https://images.unsplash.com/photo-1633356122544-f134324a6cee?ixlib=rb-4.0.3&ixid=M3wxMjA3fDB8MHxwaG90by1wYWdlfHx8fGVufDB8fHx8fA%3D%3D&auto=format&fit=crop&w=1000&q=80",
        demo_url |-> Some("https://portfolio-3d.example.com"),
        github_url |-> Some("https://github.com/user/3d-portfolio"),
        category |-> "Portfolio",
        featured |-> TRUE],
       [id |-> None,
        title |-> "E-commerce Platform",
        description |-> "Full-stack e-commerce solution with payment integration, inventory management, and admin dashboard. Features modern design and seamless user experience.",
        tech_stack |-> <<"React", "Express.js", "Stripe", "PostgreSQL", "Redis">>,
        image_url |-> "https://images.unsplash.com/photo-1556742049-0cfed4f6a45d?ixlib=rb-4.0.3&ixid=M3wxMjA3fDB8MHxwaG90by1wYWdlfHx8fGVufDB8fHx8fA%3D%3D&auto=format&fit=crop&w=1000&q=80",
        demo_url |-> Some("https://shop.example.com"),
        github_url |-> Some("https://github.com/user/ecommerce"),
        category |-> "E-commerce",
        featured |-> FALSE],
       [id |-> None,
        title |-> "Data Visualization Dashboard",
        description |-> "Interactive dashboard for data analytics with charts, graphs, and real-time updates. Perfect for business intelligence and data-driven decisions.",
        tech_stack |-> <<"React", "D3.js", "Python", "FastAPI", "PostgreSQL">>,
        image_url |-> "https://images.unsplash.com/photo-1551288049-bebda4e38f71?ixlib=rb-4.0.3&ixid=M3wxMjA3fDB8MHxwaG90by1wYWdlfHx8fGVufDB8fHx8fA%3D%3D&auto=format&fit=crop&w=1000&q=80",
        demo_url |-> Some("https://dashboard.example.com"),
        github_url |-> Some("https://github.com/user/dashboard"),
        category |-> "Data Analytics",
        featured |-> TRUE],
       [id |-> None,
        title |-> "Mobile Game Development",
        description |-> "Engaging mobile game with 3D graphics, physics simulation, and multiplayer capabilities. Optimized for performance across all devices.",
        tech_stack |-> <<"Unity", "C#", "Firebase", "Photon", "Blender">>,
        image_url |-> "https://images.unsplash.com/photo-1493711662062-fa541adb3fc8?ixlib=rb-4.0.3&ixid=M3wxMjA3fDB8MHxwaG90by1wYWdlfHx8fGVufDB8fHx8fA%3D%3D&auto=format&fit=crop&w=1000&q=80",
        demo_url |-> Some("https://play.google.com/store/apps/details?id=com.example.game"),
        github_url |-> Some("https://github.com/user/mobile-game"),
        category |-> "Game Development",
        featured |-> FALSE],
       [id |-> None,
        title |-> "Blockchain DeFi Platform",
        description |-> "Decentralized finance platform with smart contracts, yield farming, and token swapping. Built on Ethereum with modern web3 integration.",
        tech_stack |-> <<"Solidity", "React", "Web3.js", "Hardhat", "IPFS">>,
        image_url |-> "https://images.unsplash.com/photo-1639762681485-074b7f938ba0?ixlib=rb-4.0.3&ixid=M3wxMjA3fDB8MHxwaG90by1wYWdlfHx8fGVufDB8fHx8fA%3D%3D&auto=format&fit=crop&w=1000&q=80",
        demo_url |-> Some("https://defi.example.com"),
        github_url |-> Some("https://github.com/user/defi-platform"),
        category |-> "Blockchain",
        featured |-> TRUE] >>

\* len(sample_projects)
NumSamples == Len(sample_projects)

(***************************************************************************)
(* Request bodies a client may send.                                       *)
(***************************************************************************)
\* The body test_create_project posts.
new_project ==
    [id |-> JAbsent,
     title |-> JStr("Test Project"),
     description |-> JStr("This is a test project created by the automated test script"),
     tech_stack |-> JList(<<"Python", "FastAPI", "Testing">>),
     image_url |-> JStr("https://images.unsplash.com/photo-1517694712202-14dd9538aa97"),
     demo_url |-> JStr("https://test.example.com"),
     github_url |-> JStr("https://github.com/user/test-project"),
     category |-> JStr("Testing"),
     featured |-> JBool(TRUE)]

\* An id of the client's choosing.
ClientId == "client-chosen-id"

\* Bodies that satisfy ProjectCreate: the test's body, and one with an "id" of
\* the client's choosing, the optional keys null or missing, and the strings
\* and the list empty.
ValidProjectBodies ==
    { new_project,
      [new_project EXCEPT !.id = JStr(ClientId), !.demo_url = JNull,
                          !.github_url = JAbsent, !.featured = JAbsent,
                          !.title = JStr(""), !.description = JStr(""),
                          !.tech_stack = JList(<<>>), !.image_url = JStr(""),
                          !.category = JStr("")] }

\* Bodies that lack a required key or give it a value of another JSON kind.
InvalidProjectBodies ==
    { [new_project EXCEPT !.title = JAbsent],
      [new_project EXCEPT !.description = JNum("42"), !.category = JNull],
      [new_project EXCEPT !.tech_stack = JStr("Python")],
      [new_project EXCEPT !.image_url = JList(<<"a">>)] }

ProjectBodies == ValidProjectBodies \cup InvalidProjectBodies

ValidStatusBodies == { [client_name |-> JStr("probe")] }

InvalidStatusBodies ==
    { [client_name |-> JAbsent], [client_name |-> JNum("7")] }

StatusBodies == ValidStatusBodies \cup InvalidStatusBodies

\* Ids a client may put in a path: the first one issued and one never issued.
NeverIssued == "00000000-0000-4000-8000-000000000000"

PathIds == {uuid4(1), NeverIssued}

\* The ids drawn so far.
Issued == {uuid4(n) : n \in 1..uuids}

(***************************************************************************)
(* Requests and responses.                                                 *)
(***************************************************************************)
Request(op, id) == [op |-> op, project_id |-> id]

Response(op, code, body, message) ==
    [op |-> op, status |-> code, body |-> body, message |-> message]

NotFound(op) == Response(op, 404, <<>>, "Project not found")

\* FastAPI's answer to a body that fails validation.
Unprocessable(op) == Response(op, 422, <<>>, "validation error")

\* Inserts a running seed has done, -1 when none is running.
SeedProgress == IF seed_pc = "inserting" THEN Len(created_projects) ELSE -1

\* The ids of a collection's documents.
IdsOf(coll) == {coll[i].id : i \in 1..Len(coll)}

Init ==
    /\ projects = <<>>
    /\ status_checks = <<>>
    /\ uuids = 0
    /\ now = 0
    /\ seed_pc = "idle"
    /\ created_projects = <<>>
    /\ req = Request("none", "")
    /\ resp = Response("none", 0, <<>>, "")
    /\ creates = 0
    /\ preSeed = {}
    /\ seedAlone = TRUE
    /\ seeds = 0
    /\ seedCalls = 0
    /\ failures = 0
    /\ readAt = -1

\* The history of a seed is kept while it runs and until the request after its
\* response; `write` is whether the step changes db.projects, `create` whether
\* it is a create request that passed validation.
History(write, create) ==
    /\ seeds' = seeds
    /\ creates' = creates + (IF create THEN 1 ELSE 0)
    /\ IF seed_pc = "inserting"
       THEN /\ seedAlone' = (seedAlone /\ ~write)
            /\ UNCHANGED <<preSeed, seedCalls>>
       ELSE /\ seedAlone' = TRUE
            /\ preSeed' = {}
            /\ seedCalls' = 0

\* The clock moves on by a microsecond.
Tick ==
    /\ now < MaxClock
    /\ now' = now + 1
    /\ UNCHANGED <<projects, status_checks, uuids, seed_pc, created_projects, req,
                   resp, creates, preSeed, seedAlone, seeds, seedCalls, failures,
                   readAt>>

\* GET /api/
root ==
    /\ req' = Request("root", "")
    /\ resp' = Response("root", 200, <<>>, "Hello World")
    /\ readAt' = -1
    /\ History(FALSE, FALSE)
    /\ UNCHANGED <<projects, status_checks, uuids, now, seed_pc, created_projects,
                   failures>>

\* POST /api/status
create_status_check(input) ==
    /\ req' = Request("create_status_check", "")
    /\ readAt' = -1
    /\ IF StatusCheckCreate_valid(input)
       THEN /\ creates < MaxCreates
            /\ LET status_obj == StatusCheck(input, uuids + 1, now) IN
                  /\ status_checks' = insert_one_status(status_checks, status_obj)
                  /\ resp' = Response("create_status_check", 200, <<status_obj>>, "")
            /\ uuids' = uuids + 1
            /\ History(FALSE, TRUE)
       ELSE /\ resp' = Unprocessable("create_status_check")
            /\ History(FALSE, FALSE)
            /\ UNCHANGED <<status_checks, uuids>>
    /\ UNCHANGED <<projects, now, seed_pc, created_projects, failures>>

\* GET /api/status
get_status_checks ==
    /\ req' = Request("get_status_checks", "")
    /\ resp' = Response("get_status_checks", 200,
                        [i \in 1..Len(to_list(status_checks, ListCap)) |->
                            StatusCheck_of_doc(to_list(status_checks, ListCap)[i])], "")
    /\ readAt' = -1
    /\ History(FALSE, FALSE)
    /\ UNCHANGED <<projects, status_checks, uuids, now, seed_pc, created_projects,
                   failures>>

\* GET /api/projects
get_projects ==
    /\ req' = Request("get_projects", "")
    /\ resp' = Response("get_projects", 200,
                        [i \in 1..Len(to_list(projects, ListCap)) |->
                            Project_of_doc(to_list(projects, ListCap)[i])], "")
    /\ readAt' = SeedProgress
    /\ History(FALSE, FALSE)
    /\ UNCHANGED <<projects, status_checks, uuids, now, seed_pc, created_projects,
                   failures>>

\* GET /api/projects/{project_id}
get_project(project_id) ==
    /\ req' = Request("get_project", project_id)
    /\ LET project == find_one(projects, project_id) IN
          resp' = IF project = <<>> THEN NotFound("get_project")
                  ELSE Response("get_project", 200, <<Project_of_doc(project[1])>>, "")
    /\ readAt' = SeedProgress
    /\ History(FALSE, FALSE)
    /\ UNCHANGED <<projects, status_checks, uuids, now, seed_pc, created_projects,
                   failures>>

\* POST /api/projects
create_project(project) ==
    /\ req' = Request("create_project", "")
    /\ readAt' = -1
    /\ IF ProjectCreate_valid(project)
       THEN /\ creates < MaxCreates
            /\ LET project_obj == Project(ProjectCreate_dict(project), uuids + 1, now) IN
                  /\ projects' = insert_one_project(projects, project_obj)
                  /\ resp' = Response("create_project", 200, <<project_obj>>, "")
            /\ uuids' = uuids + 1
            /\ History(TRUE, TRUE)
       ELSE /\ resp' = Unprocessable("create_project")
            /\ History(FALSE, FALSE)
            /\ UNCHANGED <<projects, uuids>>
    /\ UNCHANGED <<status_checks, now, seed_pc, created_projects, failures>>

\* DELETE /api/projects/{project_id}
delete_project(project_id) ==
    /\ req' = Request("delete_project", project_id)
    /\ readAt' = -1
    /\ projects' = delete_one(projects, project_id)
    /\ resp' = IF deleted_count(projects, project_id) = 0
               THEN NotFound("delete_project")
               ELSE Response("delete_project", 200, <<>>, "Project deleted successfully")
    /\ History(deleted_count(projects, project_id) # 0, FALSE)
    /\ UNCHANGED <<status_checks, uuids, now, seed_pc, created_projects, failures>>

\* POST /api/projects/sample, up to the return of delete_many
seed_delete_many ==
    /\ seed_pc = "idle"
    /\ seeds < MaxSeeds
    /\ seeds' = seeds + 1
    /\ req' = Request("create_sample_projects", "")
    /\ projects' = delete_many(projects)
    /\ created_projects' = <<>>
    /\ seed_pc' = "inserting"
    /\ preSeed' = IdsOf(projects)
    /\ seedAlone' = TRUE
    /\ seedCalls' = 1
    /\ UNCHANGED <<status_checks, uuids, now, resp, creates, failures, readAt>>

\* POST /api/projects/sample, one turn of the loop
seed_insert ==
    /\ seed_pc = "inserting"
    /\ Len(created_projects) < NumSamples
    /\ LET project_data == sample_projects[Len(created_projects) + 1]
           project_obj == Project(project_data, uuids + 1, now)
       IN /\ projects' = insert_one_project(projects, project_obj)
          /\ created_projects' = Append(created_projects, project_obj)
    /\ uuids' = uuids + 1
    /\ seedCalls' = seedCalls + 1
    /\ UNCHANGED <<status_checks, now, seed_pc, req, resp, creates, preSeed, seedAlone,
                   seeds, failures, readAt>>

\* The message create_sample_projects formats from len(created_projects).
created_message(n) == "Created " \o ToString(n) \o " sample projects"

\* POST /api/projects/sample, the return after the loop
seed_return ==
    /\ seed_pc = "inserting"
    /\ Len(created_projects) = NumSamples
    /\ resp' = Response("create_sample_projects", 200, created_projects,
                        created_message(Len(created_projects)))
    /\ readAt' = -1
    /\ seed_pc' = "idle"
    /\ created_projects' = <<>>
    /\ UNCHANGED <<projects, status_checks, uuids, now, req, creates,
                   preSeed, seedAlone, seeds, seedCalls, failures>>

Next ==
    \/ root
    \/ \E input \in StatusBodies : create_status_check(input)
    \/ get_status_checks
    \/ get_projects
    \/ \E project_id \in PathIds : get_project(project_id)
    \/ \E project \in ProjectBodies : create_project(project)
    \/ \E project_id \in PathIds : delete_project(project_id)
    \/ seed_delete_many
    \/ seed_insert
    \/ seed_return

\* Requests served within one reading of the clock.
Spec == Init /\ [][Next]_vars

\* Requests served while the clock moves on between their steps.
NextClock ==
    \/ Tick
    \/ Next

SpecClock == Init /\ [][NextClock]_vars

(***************************************************************************)
(* Store failures.  An awaited store call may raise; no handler catches,   *)
(* so the request ends there and FastAPI answers 500.  A call that raises  *)
(* leaves its collection as it was.                                        *)
(***************************************************************************)
ServerError(op) == Response(op, 500, <<>>, "Internal Server Error")

\* POST /api/projects, insert_one raising: project_obj is built before the call.
create_project_fails(project) ==
    /\ failures < MaxFailures
    /\ failures' = failures + 1
    /\ ProjectCreate_valid(project)
    /\ creates < MaxCreates
    /\ req' = Request("create_project", "")
    /\ resp' = ServerError("create_project")
    /\ uuids' = uuids + 1
    /\ readAt' = -1
    /\ History(FALSE, TRUE)
    /\ UNCHANGED <<projects, status_checks, now, seed_pc, created_projects>>

\* POST /api/status, insert_one raising
create_status_check_fails(input) ==
    /\ failures < MaxFailures
    /\ failures' = failures + 1
    /\ StatusCheckCreate_valid(input)
    /\ creates < MaxCreates
    /\ req' = Request("create_status_check", "")
    /\ resp' = ServerError("create_status_check")
    /\ uuids' = uuids + 1
    /\ readAt' = -1
    /\ History(FALSE, TRUE)
    /\ UNCHANGED <<projects, status_checks, now, seed_pc, created_projects>>

\* POST /api/projects/sample, delete_many raising
seed_delete_many_fails ==
    /\ failures < MaxFailures
    /\ failures' = failures + 1
    /\ seed_pc = "idle"
    /\ seeds < MaxSeeds
    /\ seeds' = seeds + 1
    /\ req' = Request("create_sample_projects", "")
    /\ resp' = ServerError("create_sample_projects")
    /\ readAt' = -1
    /\ preSeed' = IdsOf(projects)
    /\ seedAlone' = TRUE
    /\ seedCalls' = 0
    /\ UNCHANGED <<projects, status_checks, uuids, now, seed_pc, created_projects, creates>>

\* POST /api/projects/sample, an insert_one of the loop raising: the
\* exception leaves the loop, and the inserts already done stay.
seed_insert_fails ==
    /\ failures < MaxFailures
    /\ failures' = failures + 1
    /\ seed_pc = "inserting"
    /\ Len(created_projects) < NumSamples
    /\ uuids' = uuids + 1
    /\ resp' = ServerError("create_sample_projects")
    /\ readAt' = -1
    /\ seed_pc' = "idle"
    /\ created_projects' = <<>>
    /\ UNCHANGED <<projects, status_checks, now, req, creates, preSeed, seedAlone,
                   seeds, seedCalls>>

\* The requests that write, with the store calls of the creates and of the
\* seed raising.  A body that fails validation makes no store call, and a
\* read or a delete makes one call and so has no partial outcome: they are
\* left out.
NextFail ==
    \/ \E input \in ValidStatusBodies : create_status_check(input)
    \/ \E project \in ValidProjectBodies : create_project(project)
    \/ seed_delete_many
    \/ seed_insert
    \/ seed_return
    \/ \E project \in ValidProjectBodies : create_project_fails(project)
    \/ \E input \in ValidStatusBodies : create_status_check_fails(input)
    \/ seed_delete_many_fails
    \/ seed_insert_fails

SpecFail == Init /\ [][NextFail]_vars

(***************************************************************************)
(* The list handlers on large collections: the collections hold documents  *)
(* that create requests left, as many as a size around the cap.            *)
(***************************************************************************)
ListSizes == {0, 1, ListCap - 1} \cup {ListCap + k : k \in 0..MaxOver}

\* db.projects after n create requests with the test's body.
created_n_projects(n) ==
    [i \in 1..n |->
        [Project(ProjectCreate_dict(new_project), i, 0)
            EXCEPT !.created_date = bson_datetime(@)]]

\* db.status_checks after m create requests, the uuids from `from` on.
created_m_status_checks(m, from) ==
    [i \in 1..m |->
        [StatusCheck([client_name |-> JStr("probe")], from + i, 0)
            EXCEPT !.timestamp = bson_datetime(@)]]

InitList ==
    /\ \E n \in ListSizes, m \in ListSizes :
          /\ projects = created_n_projects(n)
          /\ status_checks = created_m_status_checks(m, n)
          /\ uuids = n + m
          /\ creates = n + m
    /\ now = 0
    /\ seed_pc = "idle"
    /\ created_projects = <<>>
    /\ req = Request("none", "")
    /\ resp = Response("none", 0, <<>>, "")
    /\ preSeed = {}
    /\ seedAlone = TRUE
    /\ seeds = 0
    /\ seedCalls = 0
    /\ failures = 0
    /\ readAt = -1

NextList ==
    \/ get_projects
    \/ get_status_checks

SpecList == InitList /\ [][NextList]_vars

(***************************************************************************)
(* The requests that write, with the clock moving on by whole milliseconds *)
(* between them, so that records are stored with different created_date   *)
(* values.  The store calls of one seed fall within one millisecond.       *)
(***************************************************************************)
TickMilli ==
    /\ seed_pc = "idle"
    /\ now + MicrosPerMilli <= MaxClock * MicrosPerMilli
    /\ now' = now + MicrosPerMilli
    /\ UNCHANGED <<projects, status_checks, uuids, seed_pc, created_projects, req,
                   resp, creates, preSeed, seedAlone, seeds, seedCalls, failures,
                   readAt>>

NextFrame ==
    \/ TickMilli
    \/ \E input \in ValidStatusBodies : create_status_check(input)
    \/ \E project \in ValidProjectBodies : create_project(project)
    \/ \E project_id \in PathIds : delete_project(project_id)
    \/ seed_delete_many
    \/ seed_insert
    \/ seed_return

SpecFrame == Init /\ [][NextFrame]_vars

(***************************************************************************)
(* Properties.                                                             *)
(***************************************************************************)
\* The categories test_create_sample_projects expects.
expected_categories ==
    {"Web Application", "Portfolio", "E-commerce",
     "Data Analytics", "Game Development", "Blockchain"}

CategoriesOf(coll) == {coll[i].category : i \in 1..Len(coll)}

\* The request last received was for `op` and the response last sent answers it.
Served(op) == req.op = op /\ resp.op = op

\* The seed's response is the last one sent and no later seed has started.
SeedReturned ==
    /\ seed_pc = "idle"
    /\ resp.op = "create_sample_projects"
    /\ resp.status = 200

\* C1: when a seed has run to completion with no other write to db.projects
\* since it started, whatever the collection held before, db.projects holds
\* exactly 6 records and their categories are exactly the six sample
\* categories; so it is after a second seed run straight after a first.
C1_SeedLeavesSixSamples ==
    (SeedReturned /\ seedAlone) =>
        /\ Len(projects) = 6
        /\ CategoriesOf(projects) = expected_categories

\* C1 witness: a second seed has returned, run over the six records the first
\* seed left, with no create request in the whole behaviour.
C1_Witness_SeedTwice ==
    /\ SeedReturned
    /\ seedAlone
    /\ seeds = 2
    /\ uuids = 12
    /\ Cardinality(preSeed) = 6
    /\ Len(projects) = 6

\* C2: a get_project of the id a successful create_project has just returned
\* answers 200 with a record equal to the created one in every field.
C2_CreateThenGetEqual ==
    [][(/\ Served("create_project")
        /\ resp.status = 200
        /\ req'.op = "get_project"
        /\ req'.project_id = resp.body[1].id)
       => (resp'.status = 200 /\ resp'.body = resp.body)]_vars

\* C2, up to the store's precision: the record get_project returns equals the
\* created one in every field but created_date, which is the created one's
\* truncated to whole milliseconds.
C2_CreateThenGetEqualToMillis ==
    [][(/\ Served("create_project")
        /\ resp.status = 200
        /\ req'.op = "get_project"
        /\ req'.project_id = resp.body[1].id)
       => /\ resp'.status = 200
          /\ resp'.body =
                <<[resp.body[1] EXCEPT !.created_date = (@ \div 1000) * 1000]>>]_vars

\* C3: a get_project of the id a delete_project has just deleted with success
\* answers 404.
C3_DeleteThenGetNotFound ==
    [][(/\ Served("delete_project")
        /\ resp.status = 200
        /\ req'.op = "get_project"
        /\ req'.project_id = req.project_id)
       => resp' = NotFound("get_project")]_vars

\* C3 witness: a delete_project has answered 200 for an id that was stored.
C3_Witness_Deleted ==
    /\ Served("delete_project")
    /\ resp.status = 200
    /\ resp.message = "Project deleted successfully"
    /\ req.project_id \in Issued
    /\ Len(projects) > 0

\* C4: a delete_project of an id no stored record has answers 404, not the
\* success message, and leaves db.projects and db.status_checks as they were.
C4_DeleteAbsentNotFound ==
    [][\A project_id \in PathIds :
          (delete_project(project_id) /\ project_id \notin IdsOf(projects))
          => /\ resp'.status = 404
             /\ resp'.message # "Project deleted successfully"
             /\ projects' = projects
             /\ status_checks' = status_checks]_vars

\* C4 witness: a delete_project has answered 404 while records were stored.
C4_Witness_AbsentDelete ==
    /\ Served("delete_project")
    /\ resp.status = 404
    /\ req.project_id \notin IdsOf(projects)
    /\ Len(projects) > 1

\* The stored records have pairwise distinct ids.
DistinctIds(coll) ==
    \A i, j \in 1..Len(coll) : coll[i].id = coll[j].id => i = j

\* The ids a step adds to db.projects, to the seed's list, or returns from a
\* create request that passed validation.
NewIds ==
    (IdsOf(projects') \ IdsOf(projects))
    \cup (IdsOf(created_projects') \ IdsOf(created_projects))
    \cup (IF creates' # creates /\ resp'.status = 200 THEN IdsOf(resp'.body) ELSE {})

\* C5: in every reachable state the records of db.projects have pairwise
\* distinct ids, each one drawn by the server (never the id a create body
\* supplied); and every id a step stores or returns from a create or a seed
\* insert is drawn in that step and differs from every id drawn before.
C5_IdsDistinctAndFresh ==
    /\ [](/\ DistinctIds(projects)
          /\ IdsOf(projects) \subseteq Issued
          /\ ClientId \notin IdsOf(projects) \cup IdsOf(resp.body))
    /\ [][NewIds \subseteq {uuid4(n) : n \in (uuids + 1)..uuids'}]_vars

\* C5 witness: a record created from the body that supplies an id is stored
\* beside the six seeded records.
C5_Witness_ClientIdIgnored ==
    /\ Len(projects) = 7
    /\ \E i \in 1..Len(projects) : projects[i].title = ""
    /\ \E i \in 1..Len(projects) : projects[i].category = "Blockchain"

\* A body lacks a required field or gives it a value of the wrong JSON kind.
BadProjectBody(b) ==
    \/ \E f \in {"title", "description", "image_url", "category"} : b[f].t # "str"
    \/ b.tech_stack.t # "list"

BadStatusBody(b) == b.client_name.t # "str"

\* C6: a create_project or create_status_check whose body lacks a required
\* field or has it of the wrong basic type is answered with a 4xx status and
\* writes nothing: db.projects and db.status_checks are as before.
C6_InvalidCreateRejected ==
    [][/\ \A b \in ProjectBodies :
             (BadProjectBody(b) /\ create_project(b))
             => /\ resp'.status \in 400..499
                /\ projects' = projects
                /\ status_checks' = status_checks
       /\ \A b \in StatusBodies :
             (BadStatusBody(b) /\ create_status_check(b))
             => /\ resp'.status \in 400..499
                /\ projects' = projects
                /\ status_checks' = status_checks]_vars

\* C6 witness: a create_project was rejected while records were stored.
C6_Witness_Rejected ==
    /\ Served("create_project")
    /\ resp.status = 422
    /\ Len(projects) > 0

\* C7 as stated: every stored record has non-empty title, description,
\* image_url and category.
C7_StoredStringsNonEmpty ==
    \A i \in 1..Len(projects) :
        /\ projects[i].title # ""
        /\ projects[i].description # ""
        /\ projects[i].image_url # ""
        /\ projects[i].category # ""

\* C7 amended: a create_project whose title, description, image_url and
\* category are JSON strings, empty or not (and whose other fields validate),
\* is answered 200 and stores a record with exactly those strings; only a
\* missing or non-string value keeps a record from being stored.
C7_StringsStoredAsGiven ==
    [][\A b \in ProjectBodies :
          create_project(b) =>
             IF BadProjectBody(b)
             THEN projects' = projects
             ELSE /\ resp'.status = 200
                  /\ Len(projects') = Len(projects) + 1
                  /\ LET doc == projects'[Len(projects')] IN
                        /\ doc.title = b.title.s
                        /\ doc.description = b.description.s
                        /\ doc.image_url = b.image_url.s
                        /\ doc.category = b.category.s
                        /\ resp'.body[1].title = b.title.s
                        /\ resp'.body[1].category = b.category.s]_vars

\* C7 witness: a record with empty title, description, image_url and category
\* is stored and was returned by create_project.
C7_Witness_EmptyStored ==
    /\ Served("create_project")
    /\ resp.status = 200
    /\ resp.body[1].title = ""
    /\ \E i \in 1..Len(projects) :
          /\ projects[i].title = ""
          /\ projects[i].description = ""
          /\ projects[i].image_url = ""
          /\ projects[i].category = ""

\* C8: get_projects and get_status_checks answer 200 with min(n, 1000) records
\* of a collection of n, each a record of the collection (the first ones, in
\* order), hence the empty sequence when n = 0 and 1000 records when
\* n > 1000; they leave both collections unchanged.
C8_ListCapped ==
    [][/\ projects' = projects
       /\ status_checks' = status_checks
       /\ resp'.status = 200
       /\ LET coll == IF req'.op = "get_projects" THEN projects ELSE status_checks IN
             /\ Len(resp'.body) = Min(Len(coll), 1000)
             /\ \A i \in 1..Len(resp'.body) : resp'.body[i] = coll[i]]_vars

\* C8 witness: get_projects has answered with 1000 of more than 1000 records.
C8_Witness_Truncated ==
    /\ Served("get_projects")
    /\ Len(projects) > 1000
    /\ Len(resp.body) = 1000
    /\ status_checks = <<>>

\* The first k sample projects, as the seed stores them.
FirstSamplesStored(coll, k) ==
    /\ Len(coll) = k
    /\ \A i \in 1..k : coll[i].title = sample_projects[i].title

\* C9: the seed is one delete_many and six insert_one calls, and a read served
\* between them sees what is stored then: with no other write interleaved, a
\* get_projects served after k inserts returns exactly the first k sample
\* records, so none right after the delete_many although records were stored
\* before, and a get_project of a record stored before answers 404.
C9_ReaderSeesPartialSeed ==
    /\ seedCalls \in 0..7
    /\ (seed_pc = "inserting") => (seedCalls = 1 + Len(created_projects))
    /\ (readAt >= 0 /\ seedAlone /\ Served("get_projects")) =>
          /\ resp.status = 200
          /\ FirstSamplesStored(resp.body, readAt)
    /\ (readAt >= 0 /\ seedAlone /\ Served("get_project")
                    /\ req.project_id \in preSeed) =>
          resp.status = 404

\* C9 witness: records were stored, the seed's delete_many has run and no
\* insert yet, and get_projects has answered with the empty sequence.
C9_Witness_EmptyMidSeed ==
    /\ seed_pc = "inserting"
    /\ Len(created_projects) = 0
    /\ preSeed # {}
    /\ Served("get_projects")
    /\ readAt = 0
    /\ resp.status = 200
    /\ resp.body = <<>>

\* The seed's request has ended, in a response or in a failure, and nothing
\* has been served since.
SeedEnded == seed_pc = "idle" /\ resp.op = "create_sample_projects"

\* C10: a failed store call ends the request in a 500 with no records and no
\* further store call.  A failed create_project leaves db.projects as it was.
\* A seed either makes all seven calls and returns the 6 records, which are
\* then the collection, or ends in a 500 with no records: if its delete_many
\* failed the collection is as before, otherwise it holds the first k sample
\* records, k in 0..5, and none of the records stored before.
C10_FailureAllOrNothing ==
    /\ [](SeedEnded =>
            \/ /\ resp.status = 200
               /\ seedCalls = 7
               /\ Len(resp.body) = 6
               /\ seedAlone =>
                     /\ FirstSamplesStored(projects, 6)
                     /\ IdsOf(projects) = IdsOf(resp.body)
            \/ /\ resp.status = 500
               /\ resp.body = <<>>
               /\ seedCalls \in 0..6
               /\ seedAlone =>
                     IF seedCalls = 0
                     THEN IdsOf(projects) = preSeed
                     ELSE /\ FirstSamplesStored(projects, seedCalls - 1)
                          /\ seedCalls - 1 \in 0..5
                          /\ IdsOf(projects) \cap preSeed = {})
    /\ [][(creates' # creates /\ resp'.status = 500)
          => (projects' = projects /\ status_checks' = status_checks
              /\ resp'.body = <<>>)]_vars

\* C10 witness: a seed run over stored records has failed at its fourth
\* insert, leaving three sample records and none of the earlier ones.
C10_Witness_SeedFailedMidway ==
    /\ SeedEnded
    /\ resp.status = 500
    /\ seedAlone
    /\ seedCalls = 4
    /\ preSeed # {}
    /\ Len(projects) = 3

\* The records of a collection, as a set.
RecordsOf(coll) == {coll[i] : i \in 1..Len(coll)}

\* A collection without the records of one id, in order.
Without(coll, id) == SelectSeq(coll, LAMBDA d : d.id # id)

\* The step is the delete_many of a seed.
SeedDeletes == seed_pc = "idle" /\ seed_pc' = "inserting"

\* C11: a delete_project of a stored id removes exactly the one record of that
\* id and leaves the other project records, in order, and db.status_checks as
\* they were; a create_project that passes validation appends one record and
\* leaves the stored ones as they were.  In every step a record that stays
\* stored under its id is the same record (no field of it changes, its id and
\* created_date included), status checks are only appended, and, the seed's
\* delete_many apart, a record leaves db.projects only in a delete_project
\* that names its id.
C11_FrameOfDeleteAndCreate ==
    [][/\ \A project_id \in PathIds :
             (delete_project(project_id) /\ project_id \in IdsOf(projects))
             => /\ Len(projects') = Len(projects) - 1
                /\ projects' = Without(projects, project_id)
                /\ status_checks' = status_checks
       /\ \A project \in ValidProjectBodies :
             create_project(project)
             => /\ Len(projects') = Len(projects) + 1
                /\ SubSeq(projects', 1, Len(projects)) = projects
                /\ projects'[Len(projects')].id \notin IdsOf(projects)
                /\ status_checks' = status_checks
       /\ \A i \in 1..Len(projects), j \in 1..Len(projects') :
             projects[i].id = projects'[j].id => projects'[j] = projects[i]
       /\ SubSeq(status_checks', 1, Len(status_checks)) = status_checks
       /\ ~SeedDeletes
             => \A d \in RecordsOf(projects) \ RecordsOf(projects') :
                   req'.op = "delete_project" /\ req'.project_id = d.id]_vars

\* C11 witness: a delete_project has removed the first seeded record; the five
\* seeded after it and a record created a millisecond later are stored.
C11_Witness_OthersKept ==
    /\ Served("delete_project")
    /\ resp.status = 200
    /\ Len(projects) = 6
    /\ projects[1].category = "Portfolio"
    /\ projects[6].title = new_project.title.s
    /\ projects[6].created_date # projects[1].created_date

====
